---- MODULE Spec2Model ----
(***************************************************************************)
(* Model of crow's live-preview engine: LiveProject (crow/live.py) on top  *)
(* of Project (crow/project.py), Page (crow/model.py) and the SQLite page  *)
(* store (crow/db.py).  One get_rendered_content call runs at a time, one  *)
(* statement of its code per step, while an external editor changes the   *)
(* source tree between the steps.                                          *)
(***************************************************************************)
EXTENDS Integers, Sequences, FiniteSets, TLC

VARIABLES
    listing,                \* source tree: what root_path.glob(glob) returns, in its order
    content,                \* source tree: text of each source file
    mtime,                  \* source tree: os.path.getmtime of each source file
    unreadable,             \* source tree: files whose read_text raises
    writable,               \* build directory: write_text succeeds
    outputs,                \* build directory: text of each output file
    db,                     \* rows of the pages table
    pages,                  \* Project._pages
    structure_stored,       \* Project._structure_stored
    structure_hash_stored,  \* Project._structure_hash_stored
    pc,                     \* position of the running get_rendered_content call
    title,                  \* its argument
    page,                   \* its local page
    idx,                    \* position of LiveProject.build's loop (0: no loop running)
    source_content,         \* render's local source_content
    result,                 \* what the last call returned or raised
    trace,                  \* history: what the running (or last) call did
    during,                 \* history: the source tree changed since the last call began
    between,                \* history: changes of the source tree since the last call ended
    ctx,                    \* history: the previous call and the changes before this one
    fsOps,                  \* number of changes made by the external editor
    faults,                 \* number of permission changes made on top of them
    config,                 \* whether root_path and build_path name usable directories
    tx,                     \* the connection of a caller's own db.connect(write=True) block
    threads,                \* the get_rendered_content call of each request thread
    api,                    \* a caller of the store's functions: the table and what it did
    store_files             \* the database file db's functions reach, and the file they no longer reach

fsVars == <<listing, content, mtime, unreadable, writable>>
engineVars == <<db, pages, structure_stored, structure_hash_stored>>
localVars == <<title, page, idx, source_content>>
extraVars == <<api, store_files>>
auxVars == <<faults, config, tx, threads, extraVars>>
vars == <<listing, content, mtime, unreadable, writable, outputs, db, pages,
          structure_stored, structure_hash_stored, pc, title, page, idx,
          source_content, result, trace, during, between, ctx, fsOps, auxVars>>

----------------------------------------------------------------------------
(* Bounds *)

MaxMtime == 2
MaxFsOps == 1
MaxFiles == 3
MaxFaults == 1
MaxStatements == 2
MaxCalls == 1
MaxBatch == 2
MaxEngines == 2

----------------------------------------------------------------------------
(* Source locations.  The glob is "**/*.html": a location is its folder     *)
(* segments below the project root and the stem of its file name.           *)

ChIndex == [dirs |-> <<"ch">>, stem |-> "index"]
ChTop == [dirs |-> <<>>, stem |-> "ch"]
Bruh == [dirs |-> <<"ch">>, stem |-> "bruh"]
NoPath == [dirs |-> <<>>, stem |-> "<none>"]

Universe == {ChIndex, ChTop, Bruh}

\* More locations, for the trees on which the derivation of titles and the
\* natural order are exercised.
RootIndex == [dirs |-> <<>>, stem |-> "index"]
PartIndex == [dirs |-> <<"ch", "part">>, stem |-> "index"]
PartBruh == [dirs |-> <<"ch", "part">>, stem |-> "bruh"]
Ch1p2 == [dirs |-> <<"ch">>, stem |-> "1.2"]
Ch1p10 == [dirs |-> <<"ch">>, stem |-> "1.10"]

Locations == Universe \cup {RootIndex, PartIndex, PartBruh, Ch1p2, Ch1p10}
Contents == {"A", "B"}
Mtimes == 1..MaxMtime

Range(s) == {s[i] : i \in DOMAIN s}

RECURSIVE Join(_)
Join(segs) ==
    IF segs = <<>> THEN ""
    ELSE IF Len(segs) = 1 THEN segs[1]
    ELSE segs[1] \o "/" \o Join(Tail(segs))

from_source_path_index_by_stem(source_path) ==
    [title |-> source_path.stem, source_path |-> source_path,
     toc_path |-> IF source_path.dirs # <<>>
                  THEN Join(Append(source_path.dirs, source_path.stem)) ELSE "",
     modified |-> 0]

from_source_path_toc_of_folder(source_path) ==
    [title |-> IF source_path.stem = "index"
               THEN IF source_path.dirs # <<>>
                    THEN source_path.dirs[Len(source_path.dirs)] ELSE ""
               ELSE source_path.stem,
     source_path |-> source_path,
     toc_path |-> Join(source_path.dirs),
     modified |-> 0]

from_source_path(source_path) ==
    LET n == Len(source_path.dirs) + 1
        id == IF source_path.stem = "index"
              THEN IF n > 1
                   THEN [title |-> source_path.dirs[n - 1],
                         toc_path |-> Join(source_path.dirs)]
                   ELSE [title |-> "", toc_path |-> ""]
              ELSE [title |-> source_path.stem,
                    toc_path |-> IF n >= 2
                                 THEN Join(Append(source_path.dirs, source_path.stem))
                                 ELSE ""]
    IN [title |-> id.title, source_path |-> source_path,
        toc_path |-> id.toc_path, modified |-> 0]

NoPage == [title |-> "<none>", source_path |-> NoPath, toc_path |-> "", modified |-> 0]

Titles == {from_source_path(p).title : p \in Universe}
Requests == Titles \cup {"nope"}

----------------------------------------------------------------------------
(* os_sorted: natural order of the locations, component by component.      *)

\* The characters of each path component (TLC cannot look into a string).
Spelling ==
    [w \in {"ch", "part", "index", "bruh", "1.2", "1.10", ".html"} |->
        CASE w = "ch" -> <<"c", "h">>
          [] w = "part" -> <<"p", "a", "r", "t">>
          [] w = "index" -> <<"i", "n", "d", "e", "x">>
          [] w = "bruh" -> <<"b", "r", "u", "h">>
          [] w = "1.2" -> <<"1", ".", "2">>
          [] w = "1.10" -> <<"1", ".", "1", "0">>
          [] w = ".html" -> <<".", "h", "t", "m", "l">>]

Digits == <<"0", "1", "2", "3", "4", "5", "6", "7", "8", "9">>
Alphabet == <<".">> \o Digits \o
            <<"a", "b", "c", "d", "e", "f", "g", "h", "i", "j", "k", "l", "m",
              "n", "o", "p", "q", "r", "s", "t", "u", "v", "w", "x", "y", "z">>

IsDigit(c) == \E d \in DOMAIN Digits : Digits[d] = c
DigitValue(c) == (CHOOSE d \in DOMAIN Digits : Digits[d] = c) - 1
CharRank(c) == CHOOSE a \in DOMAIN Alphabet : Alphabet[a] = c

RECURSIVE DigitRun(_)
DigitRun(cs) ==
    IF cs = <<>> \/ ~IsDigit(Head(cs)) THEN 0 ELSE 1 + DigitRun(Tail(cs))

RECURSIVE Number(_)
Number(ds) ==
    IF ds = <<>> THEN 0
    ELSE Number(SubSeq(ds, 1, Len(ds) - 1)) * 10 + DigitValue(ds[Len(ds)])

\* A component as natsort splits it: text, number, text, number, ... starting
\* with a text (empty when the component starts with a digit).
RECURSIVE Chunks(_, _)
Chunks(cs, text) ==
    IF cs = <<>> THEN (IF text = <<>> THEN <<>> ELSE <<text>>)
    ELSE IF IsDigit(Head(cs))
         THEN LET n == DigitRun(cs) IN
              <<text, Number(SubSeq(cs, 1, n))>> \o Chunks(SubSeq(cs, n + 1, Len(cs)), <<>>)
         ELSE Chunks(Tail(cs), Append(text, Head(cs)))

NaturalKey(w) == Chunks(Spelling[w], <<>>)

RECURSIVE TextLess(_, _)
TextLess(a, b) ==
    IF a = <<>> THEN b # <<>>
    ELSE IF b = <<>> THEN FALSE
    ELSE IF Head(a) = Head(b) THEN TextLess(Tail(a), Tail(b))
    ELSE CharRank(Head(a)) < CharRank(Head(b))

\* Chunk by chunk: texts by their characters, numbers by their value.
RECURSIVE ChunksLess(_, _, _)
ChunksLess(a, b, i) ==
    IF i > Len(a) THEN i <= Len(b)
    ELSE IF i > Len(b) THEN FALSE
    ELSE IF a[i] = b[i] THEN ChunksLess(a, b, i + 1)
    ELSE IF i % 2 = 1 THEN TextLess(a[i], b[i]) ELSE a[i] < b[i]

SortKey(p) == p.dirs \o <<p.stem, ".html">>

RECURSIVE KeyLess(_, _)
KeyLess(a, b) ==
    IF a = <<>> THEN b # <<>>
    ELSE IF b = <<>> THEN FALSE
    ELSE IF Head(a) = Head(b) THEN KeyLess(Tail(a), Tail(b))
    ELSE ChunksLess(NaturalKey(Head(a)), NaturalKey(Head(b)), 1)

PathLess(p, q) == KeyLess(SortKey(p), SortKey(q))

os_sorted_in_glob_order(paths) == paths

RECURSIVE Flat(_)
Flat(key) == IF key = <<>> THEN <<>> ELSE Spelling[Head(key)] \o <<"/">> \o Flat(Tail(key))
CodeLess(a, b) ==
    LET rank(c) == IF c = "/" THEN 0 ELSE CharRank(c)
        RECURSIVE less(_, _)
        less(x, y) == IF x = <<>> THEN y # <<>>
                      ELSE IF y = <<>> THEN FALSE
                      ELSE IF Head(x) = Head(y) THEN less(Tail(x), Tail(y))
                      ELSE rank(Head(x)) < rank(Head(y))
    IN less(a, b)
os_sorted_lexically(paths) ==
    SortSeq(paths, LAMBDA p, q : CodeLess(Flat(SortKey(p)), Flat(SortKey(q))))

os_sorted(paths) == SortSeq(paths, PathLess)

----------------------------------------------------------------------------
(* hash(tuple(paths)): positional code of the sequence, never 0.           *)

PathOrder == <<ChIndex, ChTop, Bruh, RootIndex, PartIndex, PartBruh, Ch1p2, Ch1p10>>
PathCode(p) == CHOOSE i \in DOMAIN PathOrder : PathOrder[i] = p

RECURSIVE structure_hash_unordered(_)
structure_hash_unordered(paths) ==
    IF paths = <<>> THEN 1
    ELSE structure_hash_unordered(Tail(paths)) + 2 ^ PathCode(Head(paths))

RECURSIVE structure_hash(_)
structure_hash(paths) ==
    IF paths = <<>> THEN 1
    ELSE structure_hash(SubSeq(paths, 1, Len(paths) - 1)) * (Len(PathOrder) + 1)
         + PathCode(paths[Len(paths)])

always_needs_rebuild(hash_stored, hash_actual) == TRUE
needs_rebuild_only_first(hash_stored, hash_actual) == hash_stored = 0

is_project_needs_rebuild(hash_stored, hash_actual) == hash_stored # hash_actual

timestamp_always_mismatch(page_timestamp_real, modified) == TRUE

timestamp_newer(page_timestamp_real, modified) == page_timestamp_real > modified

timestamp_mismatch(page_timestamp_real, modified) == page_timestamp_real # modified

----------------------------------------------------------------------------
(* The renderer and the store *)

NoFile == [html |-> "", of |-> "<none>"]
RendererRender(page_source, page_metadata) ==
    [html |-> page_source, of |-> page_metadata.title]

page_output_path(pg) == pg.title

page_get_any(rows, t) ==
    IF rows # {} THEN CHOOSE r \in rows : TRUE ELSE NoPage

page_get_by_title(rows, t) ==
    IF \E r \in rows : r.title = t
    THEN CHOOSE r \in rows : r.title = t
    ELSE NoPage

page_update_modified_all(rows, pg) ==
    {[r EXCEPT !.modified = pg.modified] : r \in rows}

page_update_modified(rows, pg) ==
    {IF r.title = pg.title THEN [r EXCEPT !.modified = pg.modified] ELSE r : r \in rows}

no_primary_key(rows, new) == FALSE

PrimaryKeyViolation(rows, new) ==
    \/ \E i \in DOMAIN new : \E r \in rows : r.title = new[i].title
    \/ \E i, j \in DOMAIN new : i # j /\ new[i].title = new[j].title

pages_add_dropping_last(rows, new) ==
    IF PrimaryKeyViolation(rows, new) THEN rows
    ELSE rows \cup Range(SubSeq(new, 1, Len(new) - 1))

pages_add(rows, new) ==
    IF PrimaryKeyViolation(rows, new) THEN rows ELSE rows \cup Range(new)

pages_clear(rows) == {}

----------------------------------------------------------------------------
(* Results and history *)

NoCall == [kind |-> "nocall", html |-> NoFile, built |-> FALSE]
Pending == [kind |-> "pending", html |-> NoFile, built |-> FALSE]
NotFound == [kind |-> "notfound", html |-> NoFile, built |-> FALSE]
Failure == [kind |-> "error", html |-> NoFile, built |-> FALSE]
Returned(text) == [kind |-> "content", html |-> text, built |-> FALSE]

\* What a call remembers of the call before it: repeat, that call's result when it
\* had the same title, returned, and the tree has not changed since it began;
\* changed, the one file modified since that call when it returned and nothing
\* else changed since it began, and prevKind, prevBuilt, what that call returned
\* and whether it rebuilt; stale, a file was added or removed since the last
\* rebuild; db, the rows at the start of the call, kept until it rebuilds; retry,
\* that call had the same title and raised without rebuilding, and the tree has
\* not changed since it began.
NoCtx == [repeat |-> NoCall, changed |-> NoPath, prevKind |-> "nocall",
          prevBuilt |-> FALSE, stale |-> FALSE, db |-> {}, retry |-> FALSE,
          first |-> FALSE, order |-> "none"]

Ev(what, arg) == [ev |-> what, arg |-> arg]

\* A caller of the store's functions that has called none yet, on an empty table.
NoApi == [table |-> {}, cleared |-> FALSE, inserted |-> <<>>, asked |-> "<none>",
          got |-> NoPage, raised |-> FALSE]

\* One engine was constructed: the module's sqlite_filename_global names its
\* database file, whose rows are db; elsewhere, the rows of the first engine's file
\* once sqlite_filename_global names another file.
FirstStore == "pages.sqlite"
StoreNames == {FirstStore, "other.sqlite"}
NoSecond == [sqlite_filename_global |-> FirstStore, elsewhere |-> {}, engines |-> 1]

\* No connection is open.
NoTx == [state |-> "none", write |-> TRUE, work |-> {}, before |-> {}, stmts |-> <<>>,
         raised |-> FALSE]

\* A request thread outside get_rendered_content: sorted and i are the locals of the
\* loops of Project.build and LiveProject.build; old, the rows the thread's
\* pages_clear deleted; seen, the rows in the store when its lookup ran, and
\* overlap, whether another thread was then between its pages_clear and its
\* pages_add and what that thread's pages_clear had deleted.
Threads == {1, 2}
IdleThread ==
    [pc |-> "idle", title |-> "<none>", page |-> NoPage, sorted |-> <<>>, i |-> 0,
     result |-> NoCall, rebuilt |-> FALSE, calls |-> 0, old |-> {}, seen |-> {},
     overlap |-> [on |-> FALSE, old |-> {}]]

\* root_path is a directory; build_path is a directory or can be made one.
ValidConfig == [root_ok |-> TRUE, build_ok |-> TRUE]
Configs == [root_ok : BOOLEAN, build_ok : BOOLEAN]

TypeOK ==
    /\ Range(listing) \subseteq Universe
    /\ Len(listing) = Cardinality(Range(listing))
    /\ pc \in {"new", "idle", "check", "clear", "index", "prepare", "r_read", "r_mtime",
               "r_write", "add", "lookup", "stat", "update", "out"}
    /\ title \in Requests \cup {"<none>"}
    /\ fsOps \in 0..MaxFsOps

----------------------------------------------------------------------------
(* Initial state: a LiveProject was just constructed over some source tree *)

RECURSIVE Perms(_)
Perms(S) ==
    IF S = {} THEN {<<>>}
    ELSE UNION {{Append(s, x) : s \in Perms(S \ {x})} : x \in S}

Init ==
    /\ \E S \in SUBSET Universe : listing \in Perms(S)
    /\ content = [p \in Universe |-> IF p \in Range(listing) THEN "A" ELSE ""]
    /\ mtime = [p \in Universe |-> IF p \in Range(listing) THEN 1 ELSE 0]
    /\ unreadable = {}
    /\ writable = TRUE
    /\ outputs = [t \in Titles |-> NoFile]
    /\ db = {}
    /\ pages = <<>>
    /\ structure_stored = <<>>
    /\ structure_hash_stored = 0
    /\ pc = "idle"
    /\ title = "<none>"
    /\ page = NoPage
    /\ idx = 0
    /\ source_content = ""
    /\ result = NoCall
    /\ trace = <<>>
    /\ during = FALSE
    /\ between = <<>>
    /\ ctx = NoCtx
    /\ fsOps = 0
    /\ faults = 0
    /\ config = ValidConfig
    /\ tx = NoTx
    /\ threads = [t \in Threads |-> IdleThread]
    /\ api = NoApi
    /\ store_files = NoSecond

----------------------------------------------------------------------------
(* The external editor *)

\* A change commutes with the steps of a call that touch only the store or the
\* call's locals, so the editor moves only where the next step reads what it changes.
SourceReads == {"idle", "check", "index", "r_read", "r_mtime", "stat"}
BuildDirReads == {"idle", "r_write"}

Remove(s, e) == SelectSeq(s, LAMBDA x : x # e)

FsEvent(e) ==
    /\ fsOps < MaxFsOps
    /\ pc \in (IF e.ev = "chmod" /\ e.arg = NoPath THEN BuildDirReads ELSE SourceReads)
    /\ fsOps' = fsOps + 1
    /\ IF pc = "idle"
       THEN /\ between' = (IF between = <<>> THEN <<e>> ELSE <<Ev("many", NoPath)>>)
            /\ trace' = <<>>
            /\ ctx' = NoCtx
            /\ UNCHANGED during
       ELSE /\ during' = TRUE
            /\ UNCHANGED <<between, trace, ctx>>
    /\ UNCHANGED <<outputs, db, pages, structure_stored, structure_hash_stored,
                   pc, title, page, idx, source_content, result, auxVars>>

AddFile ==
    \E p \in Universe \ Range(listing), c \in Contents, m \in Mtimes :
        /\ listing' = Append(listing, p)
        /\ content' = [content EXCEPT ![p] = c]
        /\ mtime' = [mtime EXCEPT ![p] = m]
        /\ UNCHANGED <<unreadable, writable>>
        /\ FsEvent(Ev("add", p))

RemoveFile ==
    \E p \in Range(listing) :
        /\ listing' = Remove(listing, p)
        /\ content' = [content EXCEPT ![p] = ""]
        /\ mtime' = [mtime EXCEPT ![p] = 0]
        /\ unreadable' = unreadable \ {p}
        /\ UNCHANGED writable
        /\ FsEvent(Ev("remove", p))

ModifyFile ==
    \E p \in Range(listing), c \in Contents, m \in Mtimes :
        /\ m # mtime[p]
        /\ content' = [content EXCEPT ![p] = c]
        /\ mtime' = [mtime EXCEPT ![p] = m]
        /\ UNCHANGED <<listing, unreadable, writable>>
        /\ FsEvent(Ev(IF c = content[p] THEN "touch" ELSE "modify", p))

ProtectFile ==
    \E p \in Range(listing) :
        /\ unreadable' = (IF p \in unreadable THEN unreadable \ {p} ELSE unreadable \cup {p})
        /\ UNCHANGED <<listing, content, mtime, writable>>
        /\ FsEvent(Ev("chmod", p))

ProtectBuildDir ==
    /\ writable' = ~writable
    /\ UNCHANGED <<listing, content, mtime, unreadable>>
    /\ FsEvent(Ev("chmod", NoPath))

----------------------------------------------------------------------------
(* LiveProject.get_rendered_content *)

Raise ==
    /\ pc' = "idle"
    /\ result' = Failure
    /\ page' = NoPage
    /\ idx' = 0
    /\ source_content' = ""

Return(r) ==
    /\ pc' = "idle"
    /\ result' = [r EXCEPT !.built = \E i \in DOMAIN trace : trace[i].ev = "add"]
    /\ page' = NoPage
    /\ idx' = 0
    /\ source_content' = ""

Call ==
    \E t \in Requests :
        /\ pc = "idle"
        /\ pc' = "check"
        /\ title' = t
        /\ result' = Pending
        /\ trace' = <<>>
        /\ LET calm == result.kind \in {"content", "notfound"} /\ ~during
               one == calm /\ Len(between) = 1 /\ between[1].ev = "modify"
           IN ctx' = [repeat |-> IF calm /\ between = <<>> /\ title = t
                                 THEN [result EXCEPT !.built = FALSE] ELSE NoCall,
                      changed |-> IF one THEN between[1].arg ELSE NoPath,
                      prevKind |-> IF one THEN result.kind ELSE "nocall",
                      prevBuilt |-> one /\ result.built,
                      stale |-> Range(listing) # Range(structure_stored),
                      db |-> db,
                      retry |-> /\ result.kind = "error"
                                /\ ~during
                                /\ between = <<>>
                                /\ title = t
                                /\ \A i \in DOMAIN trace : trace[i].ev # "clear",
                      first |-> result = NoCall,
                      order |-> IF structure_hash_stored = 0 THEN "none"
                                ELSE IF listing = structure_stored THEN "same"
                                ELSE IF Range(listing) = Range(structure_stored)
                                     THEN "reordered" ELSE "changed"]
        /\ between' = <<>>
        /\ during' = FALSE
        /\ UNCHANGED <<fsVars, outputs, engineVars, page, idx, source_content, fsOps, auxVars>>

CheckRebuild ==
    /\ pc = "check"
    /\ pc' = IF is_project_needs_rebuild(structure_hash_stored, structure_hash(listing))
             THEN "clear" ELSE "lookup"
    /\ UNCHANGED <<fsVars, outputs, engineVars, localVars, result, trace, during,
                   between, ctx, fsOps, auxVars>>

PagesClear ==
    /\ pc = "clear"
    /\ db' = pages_clear(db)
    /\ trace' = Append(trace, Ev("clear", <<>>))
    /\ ctx' = [ctx EXCEPT !.db = {}]
    /\ pc' = "index"
    /\ UNCHANGED <<fsVars, outputs, pages, structure_stored, structure_hash_stored,
                   localVars, result, during, between, fsOps, auxVars>>

ProjectBuild_keeping_pages ==
    /\ pc = "index"
    /\ structure_stored' = listing
    /\ structure_hash_stored' = structure_hash(listing)
    /\ pages' = pages \o [i \in 1..Len(listing) |-> from_source_path(os_sorted(listing)[i])]
    /\ trace' = Append(trace, Ev("index", <<>>))
    /\ pc' = "prepare"
    /\ UNCHANGED <<fsVars, outputs, db, localVars, result, during, between, ctx, fsOps, auxVars>>

ProjectBuild ==
    /\ pc = "index"
    /\ structure_stored' = listing
    /\ structure_hash_stored' = structure_hash(listing)
    /\ pages' = [i \in 1..Len(listing) |-> from_source_path(os_sorted(listing)[i])]
    /\ trace' = Append(trace, Ev("index", <<>>))
    /\ pc' = "prepare"
    /\ UNCHANGED <<fsVars, outputs, db, localVars, result, during, between, ctx, fsOps, auxVars>>

RendererBuild ==
    /\ pc = "prepare"
    /\ trace' = Append(trace, Ev("prepare", pages))
    /\ IF pages = <<>>
       THEN pc' = "add" /\ idx' = 0
       ELSE pc' = "r_read" /\ idx' = 1
    /\ UNCHANGED <<fsVars, outputs, engineVars, title, page, source_content, result,
                   during, between, ctx, fsOps, auxVars>>

Rendering == IF idx = 0 THEN page ELSE pages[idx]

RenderRead ==
    /\ pc = "r_read"
    /\ LET src == Rendering.source_path IN
       IF src \notin Range(listing) \/ src \in unreadable
       THEN Raise /\ UNCHANGED trace
       ELSE /\ source_content' = content[src]
            /\ pc' = "r_mtime"
            /\ UNCHANGED <<page, idx, result, trace>>
    /\ UNCHANGED <<fsVars, outputs, engineVars, title, during, between, ctx, fsOps, auxVars>>

RenderMtime_not_marking ==
    /\ pc = "r_mtime"
    /\ LET src == Rendering.source_path IN
       IF src \notin Range(listing)
       THEN Raise /\ UNCHANGED pages
       ELSE /\ IF idx = 0
               THEN page' = [page EXCEPT !.modified = mtime[src]] /\ UNCHANGED pages
               ELSE UNCHANGED <<pages, page>>
            /\ pc' = "r_write"
            /\ UNCHANGED <<idx, source_content, result>>
    /\ UNCHANGED <<fsVars, outputs, db, structure_stored, structure_hash_stored, title,
                   trace, during, between, ctx, fsOps, auxVars>>

RenderMtime ==
    /\ pc = "r_mtime"
    /\ LET src == Rendering.source_path IN
       IF src \notin Range(listing)
       THEN Raise /\ UNCHANGED pages
       ELSE /\ IF idx = 0
               THEN page' = [page EXCEPT !.modified = mtime[src]] /\ UNCHANGED pages
               ELSE pages' = [pages EXCEPT ![idx].modified = mtime[src]] /\ UNCHANGED page
            /\ pc' = "r_write"
            /\ UNCHANGED <<idx, source_content, result>>
    /\ UNCHANGED <<fsVars, outputs, db, structure_stored, structure_hash_stored, title,
                   trace, during, between, ctx, fsOps, auxVars>>

RenderWrite_marking_first ==
    /\ pc = "r_write"
    /\ LET pg == Rendering
           rendered_content == RendererRender(source_content, pg)
       IN IF ~writable
          THEN /\ Raise
               /\ trace' = Append(trace, Ev("render", pg.source_path))
               /\ db' = (IF idx = 0 THEN page_update_modified(db, pg) ELSE db)
               /\ UNCHANGED outputs
          ELSE /\ outputs' = [outputs EXCEPT ![page_output_path(pg)] = rendered_content]
               /\ trace' = trace \o <<Ev("render", pg.source_path), Ev("write", pg.title)>>
               /\ source_content' = ""
               /\ IF idx = 0
                  THEN pc' = "update" /\ idx' = 0
                  ELSE IF idx < Len(pages)
                       THEN pc' = "r_read" /\ idx' = idx + 1
                       ELSE pc' = "add" /\ idx' = 0
               /\ UNCHANGED <<page, result, db>>
    /\ UNCHANGED <<fsVars, pages, structure_stored, structure_hash_stored,
                   title, during, between, ctx, fsOps, auxVars>>

RenderWrite ==
    /\ pc = "r_write"
    /\ LET pg == Rendering
           rendered_content == RendererRender(source_content, pg)
       IN IF ~writable
          THEN /\ Raise
               /\ trace' = Append(trace, Ev("render", pg.source_path))
               /\ UNCHANGED outputs
          ELSE /\ outputs' = [outputs EXCEPT ![page_output_path(pg)] = rendered_content]
               /\ trace' = trace \o <<Ev("render", pg.source_path), Ev("write", pg.title)>>
               /\ source_content' = ""
               /\ IF idx = 0
                  THEN pc' = "update" /\ idx' = 0
                  ELSE IF idx < Len(pages)
                       THEN pc' = "r_read" /\ idx' = idx + 1
                       ELSE pc' = "add" /\ idx' = 0
               /\ UNCHANGED <<page, result>>
    /\ UNCHANGED <<fsVars, engineVars, title, during, between, ctx, fsOps, auxVars>>

PagesAdd ==
    /\ pc = "add"
    /\ IF PrimaryKeyViolation(db, pages)
       THEN Raise /\ UNCHANGED <<db, trace>>
       ELSE /\ db' = pages_add(db, pages)
            /\ trace' = Append(trace, Ev("add", <<>>))
            /\ pc' = "lookup"
            /\ UNCHANGED <<page, idx, source_content, result>>
    /\ UNCHANGED <<fsVars, outputs, pages, structure_stored, structure_hash_stored,
                   title, during, between, ctx, fsOps, auxVars>>

Lookup ==
    /\ pc = "lookup"
    /\ LET found == page_get_by_title(db, title) IN
       IF found = NoPage
       THEN Return(NotFound)
       ELSE /\ page' = found
            /\ pc' = "stat"
            /\ UNCHANGED <<idx, source_content, result>>
    /\ UNCHANGED <<fsVars, outputs, engineVars, title, trace, during, between, ctx, fsOps, auxVars>>

Stat ==
    /\ pc = "stat"
    /\ IF page.source_path \notin Range(listing)
       THEN Raise
       ELSE /\ pc' = IF timestamp_mismatch(mtime[page.source_path], page.modified)
                     THEN "r_read" ELSE "out"
            /\ UNCHANGED <<page, idx, source_content, result>>
    /\ UNCHANGED <<fsVars, outputs, engineVars, title, trace, during, between, ctx, fsOps, auxVars>>

UpdateModified ==
    /\ pc = "update"
    /\ db' = page_update_modified(db, page)
    /\ trace' = Append(trace, Ev("update", page.title))
    /\ pc' = "out"
    /\ UNCHANGED <<fsVars, outputs, pages, structure_stored, structure_hash_stored,
                   localVars, result, during, between, ctx, fsOps, auxVars>>

ReadOutput ==
    /\ pc = "out"
    /\ IF outputs[page_output_path(page)] = NoFile
       THEN Raise
       ELSE Return(Returned(outputs[page_output_path(page)]))
    /\ UNCHANGED <<fsVars, outputs, engineVars, title, trace, during, between, ctx, fsOps, auxVars>>

Next ==
    \/ AddFile
    \/ RemoveFile
    \/ ModifyFile
    \/ ProtectFile
    \/ ProtectBuildDir
    \/ Call
    \/ CheckRebuild
    \/ PagesClear
    \/ ProjectBuild
    \/ RendererBuild
    \/ RenderRead
    \/ RenderMtime
    \/ RenderWrite
    \/ PagesAdd
    \/ Lookup
    \/ Stat
    \/ UpdateModified
    \/ ReadOutput

Spec == Init /\ [][Next]_vars

----------------------------------------------------------------------------
(* The engine over a source tree that nobody changes, drawn from Locations *)

TreeTitles == {from_source_path(p).title : p \in Locations}

InitTree ==
    /\ \E S \in SUBSET Locations : Cardinality(S) <= MaxFiles /\ listing \in Perms(S)
    /\ content = [p \in Locations |-> IF p \in Range(listing) THEN "A" ELSE ""]
    /\ mtime = [p \in Locations |-> IF p \in Range(listing) THEN 1 ELSE 0]
    /\ unreadable = {}
    /\ writable = TRUE
    /\ outputs = [t \in TreeTitles |-> NoFile]
    /\ db = {}
    /\ pages = <<>>
    /\ structure_stored = <<>>
    /\ structure_hash_stored = 0
    /\ pc = "idle"
    /\ title = "<none>"
    /\ page = NoPage
    /\ idx = 0
    /\ source_content = ""
    /\ result = NoCall
    /\ trace = <<>>
    /\ during = FALSE
    /\ between = <<>>
    /\ ctx = NoCtx
    /\ fsOps = 0
    /\ faults = 0
    /\ config = ValidConfig
    /\ tx = NoTx
    /\ threads = [t \in Threads |-> IdleThread]
    /\ api = NoApi
    /\ store_files = NoSecond

NextTree ==
    \/ Call
    \/ CheckRebuild
    \/ PagesClear
    \/ ProjectBuild
    \/ RendererBuild
    \/ RenderRead
    \/ RenderMtime
    \/ RenderWrite
    \/ PagesAdd
    \/ Lookup
    \/ Stat
    \/ ReadOutput

SpecTree == InitTree /\ [][NextTree]_vars

----------------------------------------------------------------------------
(* The engine over one tree whose files are modified and whose permissions   *)
(* change: a source file becomes unreadable, the build directory unwritable. *)

Fault(e) ==
    /\ faults < MaxFaults
    /\ pc \in (IF e.arg = NoPath THEN BuildDirReads ELSE SourceReads)
    /\ faults' = faults + 1
    /\ IF pc = "idle"
       THEN /\ between' = (IF between = <<>> THEN <<e>> ELSE <<Ev("many", NoPath)>>)
            /\ trace' = <<>>
            /\ ctx' = NoCtx
            /\ UNCHANGED during
       ELSE /\ during' = TRUE
            /\ UNCHANGED <<between, trace, ctx>>
    /\ UNCHANGED <<outputs, db, pages, structure_stored, structure_hash_stored,
                   pc, title, page, idx, source_content, result, fsOps, config, tx, threads,
                   extraVars>>

FailRead ==
    \E p \in Range(listing) \ unreadable :
        /\ unreadable' = unreadable \cup {p}
        /\ UNCHANGED <<listing, content, mtime, writable>>
        /\ Fault(Ev("chmod", p))

FailWrite ==
    /\ writable
    /\ writable' = FALSE
    /\ UNCHANGED <<listing, content, mtime, unreadable>>
    /\ Fault(Ev("chmod", NoPath))

InitFault == Init /\ Range(listing) = {ChTop, Bruh}

NextFault ==
    \/ ModifyFile
    \/ FailRead
    \/ FailWrite
    \/ Call
    \/ CheckRebuild
    \/ PagesClear
    \/ ProjectBuild
    \/ RendererBuild
    \/ RenderRead
    \/ RenderMtime
    \/ RenderWrite
    \/ PagesAdd
    \/ Lookup
    \/ Stat
    \/ UpdateModified
    \/ ReadOutput

SpecFault == InitFault /\ [][NextFault]_vars

----------------------------------------------------------------------------
(* The engine from before its construction, over any configuration: glob on  *)
(* a root that is no directory yields nothing, and nothing can be written    *)
(* under a build path that is no directory and cannot be made one.           *)

\* The database file may exist already, with rows of an earlier run.
LeftoverRows == {{}, {[from_source_path(Bruh) EXCEPT !.modified = 1]}}

InitConfig ==
    /\ config \in Configs
    /\ \E S \in SUBSET Universe : listing \in Perms(S)
    /\ ~config.root_ok => listing = <<>>
    /\ content = [p \in Universe |-> IF p \in Range(listing) THEN "A" ELSE ""]
    /\ mtime = [p \in Universe |-> IF p \in Range(listing) THEN 1 ELSE 0]
    /\ unreadable = {}
    /\ writable = config.build_ok
    /\ outputs = [t \in Titles |-> NoFile]
    /\ db \in LeftoverRows
    /\ pages = <<>>
    /\ structure_stored = <<>>
    /\ structure_hash_stored = 0
    /\ pc = "new"
    /\ title = "<none>"
    /\ page = NoPage
    /\ idx = 0
    /\ source_content = ""
    /\ result = NoCall
    /\ trace = <<>>
    /\ during = FALSE
    /\ between = <<>>
    /\ ctx = NoCtx
    /\ fsOps = 0
    /\ faults = 0
    /\ tx = NoTx
    /\ threads = [t \in Threads |-> IdleThread]
    /\ api = NoApi
    /\ store_files = NoSecond

\* LiveProject.__init__: stores the paths, truncates the database, makes the Project.
Construct_keeping_rows ==
    /\ pc = "new"
    /\ pc' = "idle"
    /\ pages' = <<>>
    /\ structure_stored' = <<>>
    /\ structure_hash_stored' = 0
    /\ UNCHANGED <<fsVars, outputs, db, localVars, result, trace, during, between, ctx,
                   fsOps, auxVars>>

Construct ==
    /\ pc = "new"
    /\ pc' = "idle"
    /\ db' = {}
    /\ pages' = <<>>
    /\ structure_stored' = <<>>
    /\ structure_hash_stored' = 0
    /\ UNCHANGED <<fsVars, outputs, localVars, result, trace, during, between, ctx,
                   fsOps, auxVars>>

NextConfig ==
    \/ Construct
    \/ Call
    \/ CheckRebuild
    \/ PagesClear
    \/ ProjectBuild
    \/ RendererBuild
    \/ RenderRead
    \/ RenderMtime
    \/ RenderWrite
    \/ PagesAdd
    \/ Lookup
    \/ Stat
    \/ ReadOutput

SpecConfig == InitConfig /\ [][NextConfig]_vars

----------------------------------------------------------------------------
(* A caller's own write transaction on the store: with connect(write=True)   *)
(* as (_, cursor): cursor.execute(...) ...                                   *)

\* What the STRICT table rejects in the REAL column modified.
NotReal == 0 - 1

StoredRows == {[from_source_path(p) EXCEPT !.modified = 1] : p \in Universe}

Statements ==
    {[op |-> "insert", row |-> [r EXCEPT !.modified = m]] : r \in StoredRows, m \in {2, NotReal}}
    \cup {[op |-> "update", row |-> [r EXCEPT !.modified = 2]] : r \in StoredRows}
    \cup {[op |-> "delete", row |-> NoPage]}

\* INSERT raises IntegrityError on a title already present or a value of the wrong type.
StatementFails(rows, stmt) ==
    /\ stmt.op = "insert"
    /\ \/ PrimaryKeyViolation(rows, <<stmt.row>>)
       \/ stmt.row.modified = NotReal

Execute(rows, stmt) ==
    IF StatementFails(rows, stmt) THEN rows
    ELSE IF stmt.op = "insert" THEN pages_add(rows, <<stmt.row>>)
    ELSE IF stmt.op = "update" THEN page_update_modified(rows, stmt.row)
    ELSE pages_clear(rows)

dbFrame == <<fsVars, outputs, pages, structure_stored, structure_hash_stored, pc,
             localVars, result, trace, during, between, ctx, fsOps, faults, config,
             threads, extraVars>>

InitDb ==
    /\ Init
    /\ listing = <<>>

\* connect(write=True): sql.connect, then the body of the with block begins.
Connect ==
    /\ tx.state \in {"none", "closed"}
    /\ tx' = [state |-> "open", write |-> TRUE, work |-> db, before |-> db,
              stmts |-> <<>>, raised |-> FALSE]
    /\ UNCHANGED <<db, dbFrame>>

\* connect(): the same with the uri's mode=ro
ConnectRead ==
    /\ tx.state \in {"none", "closed"}
    /\ tx' = [state |-> "open", write |-> FALSE, work |-> db, before |-> db,
              stmts |-> <<>>, raised |-> FALSE]
    /\ UNCHANGED <<db, dbFrame>>

\* cursor.execute(stmt) in the body; a statement that fails raises out of the body,
\* and on a read-only connection every one of these statements fails.
CursorExecute_ignoring_mode ==
    \E stmt \in Statements :
        /\ tx.state = "open"
        /\ Len(tx.stmts) < MaxStatements
        /\ tx' = [tx EXCEPT !.state = IF StatementFails(tx.work, stmt) THEN "failed" ELSE "open",
                            !.work = Execute(tx.work, stmt),
                            !.stmts = Append(tx.stmts, stmt)]
        /\ UNCHANGED <<db, dbFrame>>

CursorExecute ==
    \E stmt \in Statements :
        /\ tx.state = "open"
        /\ Len(tx.stmts) < MaxStatements
        /\ LET fails == ~tx.write \/ StatementFails(tx.work, stmt)
           IN tx' = [tx EXCEPT !.state = IF fails THEN "failed" ELSE "open",
                               !.work = IF fails THEN tx.work ELSE Execute(tx.work, stmt),
                               !.stmts = Append(tx.stmts, stmt)]
        /\ UNCHANGED <<db, dbFrame>>

\* The body ends without an exception.
BodyEnds ==
    /\ tx.state = "open"
    /\ tx' = [tx EXCEPT !.state = "exited"]
    /\ UNCHANGED <<db, dbFrame>>

\* except Exception: cursor.close(); connection.rollback(); raise
Rollback_keeping_changes ==
    /\ tx.state = "failed"
    /\ db' = tx.work
    /\ tx' = [tx EXCEPT !.state = "rolledback", !.raised = TRUE]
    /\ UNCHANGED dbFrame

Rollback ==
    /\ tx.state = "failed"
    /\ tx' = [tx EXCEPT !.state = "rolledback", !.work = db, !.raised = TRUE]
    /\ UNCHANGED <<db, dbFrame>>

\* else: cursor.close(); connection.commit()
Commit ==
    /\ tx.state = "exited"
    /\ tx.write
    /\ db' = tx.work
    /\ tx' = [tx EXCEPT !.state = "committed"]
    /\ UNCHANGED dbFrame

\* else: cursor.close(); connection.rollback(), the connection not being for writing
RollbackRead ==
    /\ tx.state = "exited"
    /\ ~tx.write
    /\ tx' = [tx EXCEPT !.state = "rolledback", !.work = db]
    /\ UNCHANGED <<db, dbFrame>>

\* finally: connection.close()
Close ==
    /\ tx.state \in {"rolledback", "committed"}
    /\ tx' = [tx EXCEPT !.state = "closed"]
    /\ UNCHANGED <<db, dbFrame>>

NextDb ==
    \/ Connect
    \/ CursorExecute
    \/ BodyEnds
    \/ Rollback
    \/ Commit
    \/ Close

SpecDb == InitDb /\ [][NextDb]_vars

\* The same with connections opened for reading as well.
NextReadOnly ==
    \/ Connect
    \/ ConnectRead
    \/ CursorExecute
    \/ BodyEnds
    \/ Rollback
    \/ Commit
    \/ RollbackRead
    \/ Close

SpecReadOnly == InitDb /\ [][NextReadOnly]_vars

----------------------------------------------------------------------------
(* Two request threads calling get_rendered_content on one engine. Nothing   *)
(* in LiveProject, Project or db takes a lock, so the calls interleave at    *)
(* every access to the store, the page list and the stored structure. A file *)
(* is removed only while no call runs.                                       *)

callFrame == <<pc, localVars, result, trace, during, between, ctx, faults, config, tx,
              extraVars>>

InBuild(b) == threads[b].pc \in {"p_clear", "p_scan", "p_append", "render", "add"}

InitThreads == Init /\ Range(listing) \subseteq {ChTop, Bruh}

TRemoveFile ==
    \E p \in Range(listing) :
        /\ fsOps < MaxFsOps
        /\ \A t \in Threads : threads[t].pc \in {"idle", "done"}
        /\ listing' = Remove(listing, p)
        /\ content' = [content EXCEPT ![p] = ""]
        /\ mtime' = [mtime EXCEPT ![p] = 0]
        /\ fsOps' = fsOps + 1
        /\ threads' = [t \in Threads |-> IdleThread]
        /\ UNCHANGED <<unreadable, writable, outputs, engineVars, callFrame>>

TCall(t) ==
    \E name \in Requests :
        /\ threads[t].pc \in {"idle", "done"}
        /\ threads[t].calls < MaxCalls
        /\ threads' = [threads EXCEPT ![t] =
              [IdleThread EXCEPT !.pc = "check", !.title = name, !.result = Pending,
                                 !.calls = threads[t].calls + 1]]
        /\ UNCHANGED <<fsVars, outputs, engineVars, fsOps, callFrame>>

\* if self.is_project_needs_rebuild():
TCheckRebuild(t) ==
    /\ threads[t].pc = "check"
    /\ LET stale == is_project_needs_rebuild(structure_hash_stored, structure_hash(listing))
       IN threads' = [threads EXCEPT ![t].pc = IF stale THEN "clear" ELSE "lookup",
                                     ![t].rebuilt = stale]
    /\ UNCHANGED <<fsVars, outputs, engineVars, fsOps, callFrame>>

\* db.pages_clear()
TPagesClear(t) ==
    /\ threads[t].pc = "clear"
    /\ db' = pages_clear(db)
    /\ threads' = [threads EXCEPT ![t].pc = "p_clear", ![t].old = db]
    /\ UNCHANGED <<fsVars, outputs, pages, structure_stored, structure_hash_stored,
                   fsOps, callFrame>>

\* Project.build: self._pages.clear()
TListClear(t) ==
    /\ threads[t].pc = "p_clear"
    /\ pages' = <<>>
    /\ threads' = [threads EXCEPT ![t].pc = "p_scan"]
    /\ UNCHANGED <<fsVars, outputs, db, structure_stored, structure_hash_stored,
                   fsOps, callFrame>>

\* Project.build: the structure, its hash, and os_sorted of it for the loop
TScan(t) ==
    /\ threads[t].pc = "p_scan"
    /\ structure_stored' = listing
    /\ structure_hash_stored' = structure_hash(listing)
    /\ threads' = [threads EXCEPT ![t].pc = "p_append", ![t].sorted = os_sorted(listing),
                                  ![t].i = 1]
    /\ UNCHANGED <<fsVars, outputs, db, pages, fsOps, callFrame>>

\* Project.build: one turn of the loop, self._pages.append(Page.from_source_path(...))
TAppend(t) ==
    /\ threads[t].pc = "p_append"
    /\ LET th == threads[t] IN
       IF th.i <= Len(th.sorted)
       THEN /\ pages' = Append(pages, from_source_path(th.sorted[th.i]))
            /\ threads' = [threads EXCEPT ![t].i = th.i + 1]
       ELSE /\ threads' = [threads EXCEPT ![t].pc = "render", ![t].i = 1, ![t].sorted = <<>>]
            /\ UNCHANGED pages
    /\ UNCHANGED <<fsVars, outputs, db, structure_stored, structure_hash_stored,
                   fsOps, callFrame>>

\* LiveProject.build: one turn of the loop over the shared list, self.render(page)
TRender(t) ==
    /\ threads[t].pc = "render"
    /\ LET th == threads[t] IN
       IF th.i <= Len(pages)
       THEN LET src == pages[th.i].source_path IN
            IF src \notin Range(listing)
            THEN /\ threads' = [threads EXCEPT ![t].pc = "done", ![t].result = Failure,
                                               ![t].i = 0]
                 /\ UNCHANGED <<pages, outputs>>
            ELSE /\ pages' = [pages EXCEPT ![th.i].modified = mtime[src]]
                 /\ outputs' = [outputs EXCEPT ![page_output_path(pages[th.i])] =
                                   RendererRender(content[src], pages[th.i])]
                 /\ threads' = [threads EXCEPT ![t].i = th.i + 1]
       ELSE /\ threads' = [threads EXCEPT ![t].pc = "add", ![t].i = 0]
            /\ UNCHANGED <<pages, outputs>>
    /\ UNCHANGED <<fsVars, db, structure_stored, structure_hash_stored, fsOps, callFrame>>

\* db.pages_add(self.project.pages_stored)
TPagesAdd(t) ==
    /\ threads[t].pc = "add"
    /\ db' = pages_add(db, pages)
    /\ threads' = IF PrimaryKeyViolation(db, pages)
                  THEN [threads EXCEPT ![t].pc = "done", ![t].result = Failure]
                  ELSE [threads EXCEPT ![t].pc = "lookup"]
    /\ UNCHANGED <<fsVars, outputs, pages, structure_stored, structure_hash_stored,
                   fsOps, callFrame>>

\* page = db.page_get_by_title(title)
TLookup(t) ==
    /\ threads[t].pc = "lookup"
    /\ LET found == page_get_by_title(db, threads[t].title)
           seeing == [threads[t] EXCEPT
                        !.seen = db,
                        !.overlap = IF \E b \in Threads \ {t} : InBuild(b)
                                    THEN [on |-> TRUE,
                                          old |-> threads[CHOOSE b \in Threads \ {t} : InBuild(b)].old]
                                    ELSE [on |-> FALSE, old |-> {}]]
       IN threads' = [threads EXCEPT ![t] =
             IF found = NoPage
             THEN [seeing EXCEPT !.pc = "done", !.result = NotFound]
             ELSE [seeing EXCEPT !.pc = "stat", !.page = found]]
    /\ UNCHANGED <<fsVars, outputs, engineVars, fsOps, callFrame>>

\* the timestamp check, and self.render(page); db.page_update_modified(page) on a mismatch
TStat(t) ==
    /\ threads[t].pc = "stat"
    /\ LET pg == threads[t].page
           src == pg.source_path
       IN IF src \notin Range(listing)
          THEN /\ threads' = [threads EXCEPT ![t].pc = "done", ![t].result = Failure]
               /\ UNCHANGED <<db, outputs>>
          ELSE IF timestamp_mismatch(mtime[src], pg.modified)
          THEN LET rendered == [pg EXCEPT !.modified = mtime[src]] IN
               /\ outputs' = [outputs EXCEPT ![page_output_path(pg)] =
                                 RendererRender(content[src], rendered)]
               /\ db' = page_update_modified(db, rendered)
               /\ threads' = [threads EXCEPT ![t].pc = "out", ![t].page = rendered]
          ELSE /\ threads' = [threads EXCEPT ![t].pc = "out"]
               /\ UNCHANGED <<db, outputs>>
    /\ UNCHANGED <<fsVars, pages, structure_stored, structure_hash_stored, fsOps, callFrame>>

\* return output_path.read_text(encoding="utf-8")
TReadOutput(t) ==
    /\ threads[t].pc = "out"
    /\ LET text == outputs[page_output_path(threads[t].page)]
       IN threads' = [threads EXCEPT ![t].pc = "done",
                                     ![t].result = IF text = NoFile THEN Failure
                                                   ELSE Returned(text)]
    /\ UNCHANGED <<fsVars, outputs, engineVars, fsOps, callFrame>>

ThreadCall == \E t \in Threads : TCall(t)
ThreadCheckRebuild == \E t \in Threads : TCheckRebuild(t)
ThreadPagesClear == \E t \in Threads : TPagesClear(t)
ThreadListClear == \E t \in Threads : TListClear(t)
ThreadScan == \E t \in Threads : TScan(t)
ThreadAppend == \E t \in Threads : TAppend(t)
ThreadRender == \E t \in Threads : TRender(t)
ThreadPagesAdd == \E t \in Threads : TPagesAdd(t)
ThreadLookup == \E t \in Threads : TLookup(t)
ThreadStat == \E t \in Threads : TStat(t)
ThreadReadOutput == \E t \in Threads : TReadOutput(t)

NextThreads ==
    \/ TRemoveFile
    \/ ThreadCall
    \/ ThreadCheckRebuild
    \/ ThreadPagesClear
    \/ ThreadListClear
    \/ ThreadScan
    \/ ThreadAppend
    \/ ThreadRender
    \/ ThreadPagesAdd
    \/ ThreadLookup
    \/ ThreadStat
    \/ ThreadReadOutput

SpecThreads == InitThreads /\ [][NextThreads]_vars

----------------------------------------------------------------------------
(* A caller of the store's functions pages_clear, pages_add and              *)
(* page_get_by_title, with any Page records. A row of the table is the tuple *)
(* pages_add makes of a Page, the source path as text; page_get_by_title     *)
(* makes a Page of the row again.                                            *)

\* str(page.source_path): the parts of the path, the file name last.
PathStr_name_only(source_path) == <<source_path.stem, "html">>

PathStr(source_path) == source_path.dirs \o <<source_path.stem, "html">>

\* Path(text), as Page(**row) coerces the column source_path.
PathParse(text) ==
    [dirs |-> SubSeq(text, 1, Len(text) - 2), stem |-> text[Len(text) - 1]]

PageTuple(pg) == <<pg.title, PathStr(pg.source_path), pg.toc_path, pg.modified>>

PageFromRow(row) ==
    [title |-> row[1], source_path |-> PathParse(row[2]), toc_path |-> row[3],
     modified |-> row[4]]

page_get_by_title_row(table, t) ==
    IF \E row \in table : row[1] = t
    THEN PageFromRow(CHOOSE row \in table : row[1] = t)
    ELSE NoPage

StorePages ==
    [title : {"ch", "bruh"}, source_path : {ChTop, Bruh}, toc_path : {"", "ch"},
     modified : {0, 1}]

Batches == UNION {[1..n -> StorePages] : n \in 0..MaxBatch}

apiFrame == <<fsVars, outputs, engineVars, pc, localVars, result, trace, during, between,
              ctx, fsOps, faults, config, tx, threads, store_files>>

InitStore == Init /\ listing = <<>>

\* db.pages_clear()
ApiClear ==
    /\ api' = [NoApi EXCEPT !.cleared = TRUE]
    /\ UNCHANGED apiFrame

\* db.pages_add(new)
ApiAdd ==
    \E new \in Batches :
        /\ Len(api.inserted) + Len(new) <= MaxBatch
        /\ api' = IF PrimaryKeyViolation({PageFromRow(row) : row \in api.table}, new)
                  THEN [api EXCEPT !.raised = TRUE, !.asked = "<none>", !.got = NoPage]
                  ELSE [api EXCEPT !.table = api.table \cup {PageTuple(new[i]) : i \in DOMAIN new},
                                   !.inserted = api.inserted \o new,
                                   !.raised = FALSE, !.asked = "<none>", !.got = NoPage]
        /\ UNCHANGED apiFrame

\* db.page_get_by_title(t)
ApiGet ==
    \E t \in Requests :
        /\ api' = [api EXCEPT !.asked = t, !.got = page_get_by_title_row(api.table, t),
                              !.raised = FALSE]
        /\ UNCHANGED apiFrame

NextStore ==
    \/ ApiClear
    \/ ApiAdd
    \/ ApiGet

SpecStore == InitStore /\ [][NextStore]_vars

----------------------------------------------------------------------------
(* The engine over a tree whose listing order changes: root_path.glob gives  *)
(* the same files in another order.                                          *)

Reorder ==
    \E other \in Perms(Range(listing)) \ {listing} :
        /\ listing' = other
        /\ UNCHANGED <<content, mtime, unreadable, writable>>
        /\ FsEvent(Ev("reorder", other[1]))

NextOrder ==
    \/ Reorder
    \/ Call
    \/ CheckRebuild
    \/ PagesClear
    \/ ProjectBuild
    \/ RendererBuild
    \/ RenderRead
    \/ RenderMtime
    \/ RenderWrite
    \/ PagesAdd
    \/ Lookup
    \/ Stat
    \/ ReadOutput

SpecOrder == Init /\ [][NextOrder]_vars

----------------------------------------------------------------------------
(* The engine over a tree whose files carry any modification times and are   *)
(* modified, to later or to earlier times.                                   *)

InitMarks ==
    /\ \E S \in SUBSET {ChTop, Bruh} : listing \in Perms(S)
    /\ content = [p \in Universe |-> IF p \in Range(listing) THEN "A" ELSE ""]
    /\ mtime \in [Universe -> 0..MaxMtime]
    /\ \A p \in Universe : mtime[p] = 0 <=> p \notin Range(listing)
    /\ unreadable = {}
    /\ writable = TRUE
    /\ outputs = [t \in Titles |-> NoFile]
    /\ db = {}
    /\ pages = <<>>
    /\ structure_stored = <<>>
    /\ structure_hash_stored = 0
    /\ pc = "idle"
    /\ title = "<none>"
    /\ page = NoPage
    /\ idx = 0
    /\ source_content = ""
    /\ result = NoCall
    /\ trace = <<>>
    /\ during = FALSE
    /\ between = <<>>
    /\ ctx = NoCtx
    /\ fsOps = 0
    /\ faults = 0
    /\ config = ValidConfig
    /\ tx = NoTx
    /\ threads = [t \in Threads |-> IdleThread]
    /\ api = NoApi
    /\ store_files = NoSecond

NextMarks ==
    \/ ModifyFile
    \/ Call
    \/ CheckRebuild
    \/ PagesClear
    \/ ProjectBuild
    \/ RendererBuild
    \/ RenderRead
    \/ RenderMtime
    \/ RenderWrite
    \/ PagesAdd
    \/ Lookup
    \/ Stat
    \/ UpdateModified
    \/ ReadOutput

SpecMarks == InitMarks /\ [][NextMarks]_vars

----------------------------------------------------------------------------
(* The engine with further LiveProject objects constructed in its process,   *)
(* on its database file or on another one.                                   *)

\* LiveProject.__init__ of another engine: db.init(db_path) sets the module's
\* sqlite_filename_global and truncates that file; the new engine's Project is
\* its own object.
ConstructSecond ==
    \E db_path \in StoreNames :
        /\ pc = "idle"
        /\ store_files.engines < MaxEngines
        /\ store_files' =
              [sqlite_filename_global |-> db_path,
               elsewhere |-> IF db_path = store_files.sqlite_filename_global
                             THEN store_files.elsewhere ELSE db,
               engines |-> store_files.engines + 1]
        /\ db' = {}
        /\ UNCHANGED <<fsVars, outputs, pages, structure_stored, structure_hash_stored,
                       localVars, pc, result, trace, during, between, ctx, fsOps, faults,
                       config, tx, threads, api>>

NextEngines ==
    \/ ConstructSecond
    \/ Call
    \/ CheckRebuild
    \/ PagesClear
    \/ ProjectBuild
    \/ RendererBuild
    \/ RenderRead
    \/ RenderMtime
    \/ RenderWrite
    \/ PagesAdd
    \/ Lookup
    \/ Stat
    \/ ReadOutput

SpecEngines == Init /\ [][NextEngines]_vars

----------------------------------------------------------------------------
(* Properties *)

Did(what) == \E i \in DOMAIN trace : trace[i].ev = what
Events(what) == SelectSeq(trace, LAMBDA e : e.ev = what)
TitlesOf(paths) == {from_source_path(p).title : p \in Range(paths)}
DbTitles == {r.title : r \in db}
Settled == pc = "idle" /\ between = <<>> /\ ~during

\* C1: once the bulk insert of a full rebuild has succeeded (so no two discovered
\* files derive one title), the titles in the store are exactly the titles derived
\* from the files that rebuild discovered, one row per file.
C1_RebuildStoresDerivedTitles ==
    Did("add") =>
        /\ DbTitles = TitlesOf(structure_stored)
        /\ Cardinality(db) = Len(structure_stored)

C1_Witness ==
    /\ pc = "idle"
    /\ Did("add")
    /\ Len(structure_stored) = 2

\* C2: whenever no call is running, also after a call that raised, the titles in
\* the store are the titles derived from structure_stored.
C2_StoreMatchesStructure ==
    pc = "idle" => DbTitles = TitlesOf(structure_stored)


\* C3: a call that repeats the title of the call before it, which returned, with no
\* change of the tree since that call began, rebuilds, renders and writes nothing
\* (neither an output file nor the store) and returns what that call returned.
C3_RepeatedCallIsCacheHit ==
    (ctx.repeat.kind \in {"content", "notfound"} /\ ~during) =>
        /\ trace = <<>>
        /\ pc = "idle" => (result.kind = ctx.repeat.kind /\ result.html = ctx.repeat.html)

C3_Witness ==
    /\ Settled
    /\ ctx.repeat.kind = "content"
    /\ result.kind = "content"

SourcesOf(t) == {p \in Range(listing) : from_source_path(p).title = t}

ModifiedSinceReturn ==
    /\ Settled
    /\ ctx.changed # NoPath
    /\ SourcesOf(title) = {ctx.changed}
    /\ result.kind # "error"

Rerendered ==
    /\ result.kind = "content"
    /\ result.html = RendererRender(content[ctx.changed], from_source_path(ctx.changed))
    /\ page_get_by_title(db, title).modified = mtime[ctx.changed]

\* C4: after a call that returned (content or not-found), when the one change of
\* the tree is a new text and a new modification time for the only source of title
\* T, the next call for T, unless it raises, returns the render of the new text and
\* leaves T's stored mark equal to the source's modification time.
C4_ModifiedSourceIsRerendered ==
    (ModifiedSinceReturn /\ ctx.prevKind \in {"content", "notfound"}) => Rerendered

\* The same property for the case that the call before the change returned content
\* and the source's new modification time differs from the mark stored for T.
ModifiedSourceIsRerenderedAfterContent ==
    (ModifiedSinceReturn /\ ctx.prevKind = "content"
        /\ page_get_by_title(ctx.db, title).modified # mtime[ctx.changed]) => Rerendered

ChangedAfterRebuild ==
    /\ Settled
    /\ ctx.changed # NoPath
    /\ ctx.prevBuilt
    /\ title \in TitlesOf(listing)

\* C5 as stated: after a successful rebuild and a change of one source file, a call
\* with any existing title renders exactly the changed page.
C5_AnyTitleRerendersChangedPage ==
    ChangedAfterRebuild => Events("render") = <<Ev("render", ctx.changed)>>

\* C5 as amended: such a call rebuilds nothing; it renders the changed page, once,
\* when the changed page's title is the one requested, and renders no page when the
\* title of another existing page is requested.
C5_OnlyRequestedPageIsRerendered ==
    ChangedAfterRebuild =>
        /\ ~Did("clear")
        /\ result.kind = "content"
        /\ Events("render") = IF title = from_source_path(ctx.changed).title
                               THEN <<Ev("render", ctx.changed)>>
                               ELSE <<>>

C5_Witness ==
    /\ ChangedAfterRebuild
    /\ title = from_source_path(ctx.changed).title
    /\ Cardinality(db) = 2
    /\ Len(Events("render")) = 1

PastBuild ==
    \/ pc \in {"lookup", "stat", "update", "out"}
    \/ pc \in {"r_read", "r_mtime", "r_write"} /\ idx = 0
    \/ pc = "idle" /\ result.kind \in {"content", "notfound"}

FullRebuildDone ==
    LET n == Len(pages) IN
    /\ Len(trace) >= 2 * n + 4
    /\ trace[1].ev = "clear"
    /\ trace[2].ev = "index"
    /\ trace[3].ev = "prepare"
    /\ \A i \in 1..n :
          /\ trace[2 * i + 2].ev = "render" /\ trace[2 * i + 2].arg = pages[i].source_path
          /\ trace[2 * i + 3].ev = "write" /\ trace[2 * i + 3].arg = pages[i].title
    /\ trace[2 * n + 4].ev = "add"

\* C6: when the set of source files differs from the one the last rebuild stored,
\* the next call, whatever its title, decides to rebuild and clears the store first, and by the time
\* it looks the title up it has re-indexed, prepared, rendered and written every
\* page and bulk-inserted the records.
C6_StructureChangeForcesRebuild ==
    (ctx.stale /\ ~during /\ pc \notin {"check", "clear"}) =>
        /\ trace # <<>>
        /\ trace[1].ev = "clear"
        /\ PastBuild => FullRebuildDone

C6_Witness ==
    /\ Settled
    /\ ctx.stale
    /\ title = "nope"
    /\ result.kind = "notfound"
    /\ Len(pages) >= 1
    /\ \E t \in Titles : outputs[t] # NoFile /\ t \notin TitlesOf(listing)

\* C7 as stated: a call for a title that no discovered source file derives, when it
\* returns, returns not-found without rendering anything and without changing a mark.
C7_MissingTitleRendersNothing ==
    (Settled /\ result.kind \in {"content", "notfound"}
        /\ title \notin TitlesOf(listing)) =>
        /\ result.kind = "notfound"
        /\ ~Did("render")
        /\ ~Did("update")

\* C7 as amended: such a call, when it returns, returns not-found and updates no
\* mark; it renders nothing unless it performs a full rebuild.
C7_MissingTitleIsNotFound ==
    (Settled /\ result.kind \in {"content", "notfound"}
        /\ title \notin TitlesOf(listing)) =>
        /\ result.kind = "notfound"
        /\ ~Did("update")
        /\ ~Did("clear") => trace = <<>>

C7_Witness ==
    /\ Settled
    /\ result.kind = "notfound"
    /\ title \in Titles \ TitlesOf(listing)
    /\ outputs[title] # NoFile

\* C8: a call for a title that a present source file derives, with no change of the
\* tree during the call, never returns not-found.
C8_PresentTitleIsNeverNotFound ==
    (Settled /\ title \in TitlesOf(listing)) => result.kind # "notfound"

SameIdentity(r, q) ==
    /\ r.title = q.title
    /\ r.source_path = q.source_path
    /\ r.toc_path = q.toc_path

\* C9: as long as a call has not started a full rebuild, the store holds the rows it
\* held when the call began, each with its title, source path and hierarchical
\* path, and with its mark unless its title is the requested one; and the mark the
\* call writes is the one the next read of the store returns.
C9_OnlyRequestedMarkChanges ==
    (between = <<>> /\ ~Did("clear")) =>
        /\ \A r \in db : \E q \in ctx.db :
              SameIdentity(r, q) /\ (r.title # title => r.modified = q.modified)
        /\ Cardinality(db) = Cardinality(ctx.db)
        /\ (pc = "out" /\ Did("update")) =>
              page_get_by_title(db, title).modified = page.modified

C9_Witness ==
    /\ pc = "out"
    /\ Did("update")
    /\ Cardinality(db) = 2
    /\ \E r \in db : r.title # title /\ r.modified # page.modified

\* C10: a call prepares the renderer only in a full rebuild, once, right after the
\* project is re-indexed and before any render; prepare receives one fresh record
\* per stored source location, in natural order.
C10_PrepareOncePerRebuild ==
    /\ Len(Events("prepare")) <= 1
    /\ ~Did("clear") => ~Did("prepare")
    /\ (Did("add") \/ (Did("clear") /\ Did("render"))) => Did("prepare")
    /\ Did("prepare") =>
          /\ trace[2].ev = "index"
          /\ trace[3].ev = "prepare"
          /\ \A i \in DOMAIN trace : trace[i].ev = "render" => i > 3
          /\ LET given == trace[3].arg IN
             /\ Len(given) = Len(structure_stored)
             /\ {given[i].source_path : i \in DOMAIN given} = Range(structure_stored)
             /\ \A i \in DOMAIN given : given[i] = from_source_path(given[i].source_path)
             /\ \A i, j \in DOMAIN given :
                   i < j => PathLess(given[i].source_path, given[j].source_path)

C10_Witness ==
    /\ Did("add")
    /\ Len(structure_stored) = 2
    /\ os_sorted(structure_stored) # structure_stored

\* C16: every record of the page list whose file is named index has, below a
\* folder, the enclosing folder's name as title and the folders joined with "/" as
\* hierarchical path, and at the project root the empty title and the empty path.
C16_IndexPageIdentity ==
    \A i \in DOMAIN pages :
        LET source_path == pages[i].source_path
            segments == Len(source_path.dirs) + 1
        IN source_path.stem = "index" =>
            IF segments > 1
            THEN /\ pages[i].title = source_path.dirs[segments - 1]
                 /\ pages[i].toc_path = Join(source_path.dirs)
            ELSE /\ pages[i].title = ""
                 /\ pages[i].toc_path = ""

C16_Witness ==
    /\ \E i \in DOMAIN pages :
          /\ pages[i].source_path = PartIndex
          /\ pages[i].title = "part"
          /\ pages[i].toc_path = "ch/part"
    /\ \E i \in DOMAIN pages :
          /\ pages[i].source_path = RootIndex
          /\ pages[i].title = ""

\* C17: every record of the page list whose file is not named index has the file's
\* stem as title; its hierarchical path is the folders joined with "/", then "/",
\* then the title when the file lies in a folder, and empty when it lies at the root.
C17_PlainPageIdentity ==
    \A i \in DOMAIN pages :
        LET source_path == pages[i].source_path IN
        source_path.stem # "index" =>
            /\ pages[i].title = source_path.stem
            /\ pages[i].toc_path = IF source_path.dirs # <<>>
                                   THEN Join(source_path.dirs) \o "/" \o pages[i].title
                                   ELSE ""

C17_Witness ==
    /\ \E i \in DOMAIN pages :
          /\ pages[i].source_path = PartBruh
          /\ pages[i].title = "bruh"
          /\ pages[i].toc_path = "ch/part/bruh"
    /\ \E i \in DOMAIN pages :
          /\ pages[i].source_path = ChTop
          /\ pages[i].toc_path = ""

\* Locations p and q differ first in a component where, after equal chunks, both
\* have a number, and p's number is the smaller one.
SmallerNumberFirst(p, q) ==
    \E c \in DOMAIN SortKey(p) \cap DOMAIN SortKey(q) :
        /\ \A b \in 1..(c - 1) : SortKey(p)[b] = SortKey(q)[b]
        /\ LET kp == NaturalKey(SortKey(p)[c])
               kq == NaturalKey(SortKey(q)[c])
           IN \E n \in DOMAIN kp \cap DOMAIN kq :
                /\ n % 2 = 0
                /\ \A m \in 1..(n - 1) : kp[m] = kq[m]
                /\ kp[n] < kq[n]

\* C18: in the page list the location with the smaller number comes first wherever
\* two locations differ first in a number; prepare receives the pages in the order
\* of the page list, and a rebuild renders them in that order.
C18_NaturalOrder ==
    /\ \A i, j \in DOMAIN pages :
          SmallerNumberFirst(pages[i].source_path, pages[j].source_path) => i < j
    /\ \A e \in DOMAIN trace :
          trace[e].ev = "prepare" =>
              /\ Len(trace[e].arg) = Len(pages)
              /\ \A i \in DOMAIN pages : trace[e].arg[i].source_path = pages[i].source_path
    /\ Did("clear") =>
          \A r \in DOMAIN Events("render") :
              r <= Len(pages) /\ Events("render")[r].arg = pages[r].source_path

C18_Witness ==
    /\ Did("add")
    /\ Len(Events("render")) = Len(pages)
    /\ \E i, j \in DOMAIN listing : i < j /\ listing[i] = Ch1p10 /\ listing[j] = Ch1p2
    /\ \E i, j \in DOMAIN pages :
          i < j /\ pages[i].source_path = Ch1p2 /\ pages[j].source_path = Ch1p10

HasDuplicateTitles(paths) ==
    \E i, j \in DOMAIN paths :
        i # j /\ from_source_path(paths[i]).title = from_source_path(paths[j]).title

\* C13: once a call has re-indexed a tree in which two files derive the same
\* title, the store holds no record, the page list keeps one record per file under
\* its derived title, and the call ends with an error, not with content or not-found.
C13_DuplicateTitleRaises ==
    (Did("index") /\ HasDuplicateTitles(structure_stored)) =>
        /\ db = {}
        /\ Len(pages) = Len(structure_stored)
        /\ \A p \in Range(structure_stored) :
              \E i \in DOMAIN pages :
                  /\ pages[i].source_path = p
                  /\ pages[i].title = from_source_path(p).title
        /\ pc = "idle" => result.kind = "error"

C13_Witness ==
    /\ pc = "idle"
    /\ Did("index")
    /\ HasDuplicateTitles(structure_stored)
    /\ Len(Events("write")) = Len(pages)
    /\ result.kind = "error"

\* C19: once Project.build has run, the page list holds one record per location
\* of the stored structure, each as from_source_path derives it (but for the mark
\* a render sets), and nothing else; the stored fingerprint is the fingerprint of
\* the stored structure, which is the tree as the build found it.
C19_BuildReplacesPages ==
    structure_hash_stored # 0 =>
        /\ Len(pages) = Len(structure_stored)
        /\ \A p \in Range(structure_stored) : \E i \in DOMAIN pages : pages[i].source_path = p
        /\ \A i \in DOMAIN pages :
              [pages[i] EXCEPT !.modified = 0] = from_source_path(pages[i].source_path)
        /\ structure_hash_stored = structure_hash(structure_stored)
        /\ pc = "prepare" =>
              /\ \A i \in DOMAIN pages : pages[i].modified = 0
              /\ ~during => structure_stored = listing

C19_Witness ==
    /\ pc = "prepare"
    /\ pages # <<>>
    /\ \E t \in Titles : outputs[t] # NoFile /\ t \notin TitlesOf(listing)

\* C14: a call that raised without rebuilding, the tree unchanged during it, has
\* attempted at most one render, has left the store as it was when the call began,
\* and T's stored mark still differs from the source's modification time; the next
\* call for T, the tree still unchanged, goes into the render again.
C14_FailedRenderLeavesMark ==
    /\ (pc = "idle" /\ result.kind = "error" /\ ~Did("clear") /\ ~during /\ between = <<>>) =>
          /\ Len(Events("render")) <= 1
          /\ ~Did("write")
          /\ ~Did("update")
          /\ db = ctx.db
          /\ \E r \in db : r.title = title /\ r.modified # mtime[r.source_path]
    /\ (ctx.retry /\ ~during /\ pc \notin {"check", "lookup", "stat"}) =>
          \/ pc \in {"r_read", "r_mtime", "r_write"} /\ idx = 0
          \/ pc = "idle" /\ result.kind = "error" /\ ~Did("clear")

C14_Witness ==
    /\ pc = "idle"
    /\ ctx.retry
    /\ ~during
    /\ result.kind = "error"
    /\ \E r \in db : r.title = title /\ r.modified # mtime[r.source_path]

\* C15: an engine whose root path or output path is invalid fails when it is
\* constructed, so no get_rendered_content call ever completes on such an engine,
\* neither with a result nor with an error.
C15_InvalidConfigFailsAtConstruction ==
    (pc = "idle" /\ result # NoCall) => config = ValidConfig

RECURSIVE ExecuteAll(_, _)
ExecuteAll(rows, stmts) ==
    IF stmts = <<>> THEN rows
    ELSE ExecuteAll(Execute(rows, Head(stmts)), Tail(stmts))

RECURSIVE SomeFails(_, _)
SomeFails(rows, stmts) ==
    /\ stmts # <<>>
    /\ \/ StatementFails(rows, Head(stmts))
       \/ SomeFails(Execute(rows, Head(stmts)), Tail(stmts))

\* C20: while a write transaction is open the store holds what it held when the
\* transaction began; once its connection is closed, the store holds the same
\* still and the error was raised to the caller if one of its statements failed,
\* and holds the effect of all its statements, with no error, if none failed.
C20_WriteTransactionIsAtomic ==
    /\ tx.state \in {"open", "failed", "exited", "rolledback"} => db = tx.before
    /\ tx.state = "closed" =>
          IF SomeFails(tx.before, tx.stmts)
          THEN db = tx.before /\ tx.raised
          ELSE db = ExecuteAll(tx.before, tx.stmts) /\ ~tx.raised

C20_Witness ==
    /\ tx.state = "closed"
    /\ tx.raised
    /\ Len(tx.stmts) = 2
    /\ Execute(tx.before, tx.stmts[1]) # tx.before
    /\ db = tx.before

\* The rows a full rebuild over the files in paths stores.
RowsOf(paths) == {[from_source_path(p) EXCEPT !.modified = mtime[p]] : p \in Range(paths)}

\* C11: a thread that did not rebuild and whose title lookup ran while another
\* thread was between the pages_clear and the pages_add of its rebuild saw in the
\* store either all the rows from before that rebuild or all the rows after it.
C11_ReaderSeesOldOrNewPages ==
    \A r \in Threads :
        (threads[r].pc \in {"stat", "out", "done"} /\ ~threads[r].rebuilt /\ threads[r].overlap.on) =>
            threads[r].seen \in {threads[r].overlap.old, RowsOf(listing)}

\* C12: when both threads' calls found the fingerprint changed and both have ended,
\* no two files deriving one title, neither call raised, each returned content
\* exactly if a file derives its title, and the page list and the store hold one
\* record per file.
C12_ConcurrentRebuildsAreSequential ==
    ((\A t \in Threads : threads[t].pc = "done" /\ threads[t].rebuilt)
        /\ ~HasDuplicateTitles(listing)) =>
        /\ \A t \in Threads :
              threads[t].result.kind =
                 (IF threads[t].title \in TitlesOf(listing) THEN "content" ELSE "notfound")
        /\ Len(pages) = Len(listing)
        /\ {pages[i].source_path : i \in DOMAIN pages} = Range(listing)
        /\ db = RowsOf(listing)

\* C21: after pages_clear and then pages_add of records with distinct titles,
\* page_get_by_title returns for an inserted title the record that was inserted,
\* equal in title, source path, toc path and mark, and no record for any other title.
C21_GetReturnsInsertedRecord ==
    (api.cleared /\ api.asked # "<none>") =>
        IF \E i \in DOMAIN api.inserted : api.inserted[i].title = api.asked
        THEN \E i \in DOMAIN api.inserted :
                api.inserted[i].title = api.asked /\ api.got = api.inserted[i]
        ELSE api.got = NoPage

C21_Witness ==
    /\ api.cleared
    /\ Len(api.inserted) = 2
    /\ api.asked = "bruh"
    /\ api.got.source_path = Bruh
    /\ api.got.modified = 1

\* C22: a constructed engine that no call has been made on has an empty store,
\* whatever the database file held before; and the first call on it clears the
\* store as its first step and, by the time it looks the title up, has re-indexed,
\* prepared, rendered every page and bulk-inserted the records, for every tree.
C22_FirstCallRebuilds ==
    /\ (pc = "idle" /\ result = NoCall) => db = {}
    /\ (ctx.first /\ pc \notin {"check", "clear"}) =>
          /\ trace # <<>>
          /\ trace[1].ev = "clear"
          /\ PastBuild => FullRebuildDone

C22_Witness ==
    /\ ctx.first
    /\ pc = "idle"
    /\ listing = <<>>
    /\ result.kind = "notfound"
    /\ FullRebuildDone

RendersOf(source_path) ==
    Cardinality({k \in DOMAIN trace : trace[k].ev = "render" /\ trace[k].arg = source_path})

\* C23: when the render loop of a full rebuild has ended, every page of the page
\* list has been rendered exactly once and nothing else has; the rows the bulk
\* insert stored carry the modification time of their source, not 0; and while
\* the tree does not change during the call, the call renders no page again.
C23_RebuildRendersEachPageOnce ==
    /\ (pc = "add" \/ (Did("add") /\ ~during)) =>
          /\ \A i \in DOMAIN pages : RendersOf(pages[i].source_path) = 1
          /\ Len(Events("render")) = Len(pages)
    /\ (Did("add") /\ ~during) =>
          /\ \A r \in db : r.modified = mtime[r.source_path] /\ r.modified # 0
          /\ ~Did("update")

C23_Witness ==
    /\ pc = "idle"
    /\ Did("add")
    /\ ~during
    /\ ~ctx.first
    /\ ctx.stale
    /\ result.kind = "content"
    /\ Len(pages) = 2

\* C24: a call made when glob gives the files of the last rebuild in another order
\* clears the store first and has run the whole rebuild by the time it looks the
\* title up; a call made when glob gives them in the same order does not rebuild.
C24_FingerprintIsOrderSensitive ==
    /\ (ctx.order = "reordered" /\ ~during /\ pc \notin {"check", "clear"}) =>
          /\ trace # <<>>
          /\ trace[1].ev = "clear"
          /\ PastBuild => FullRebuildDone
    /\ (ctx.order = "same" /\ ~during /\ pc # "check") => ~Did("clear")

C24_Witness ==
    /\ ctx.order = "reordered"
    /\ ~during
    /\ pc = "idle"
    /\ result.kind = "content"
    /\ FullRebuildDone

\* The row the store held for the requested title when the call began.
RowAtCall == page_get_by_title(ctx.db, title)

CallEndedWithoutRebuild ==
    /\ pc = "idle"
    /\ result.kind \in {"content", "notfound", "error"}
    /\ between = <<>>
    /\ ~during
    /\ ~Did("clear")
    /\ RowAtCall # NoPage
    /\ RowAtCall.source_path \in Range(listing)

\* C25: a call for T that did not rebuild, the tree unchanged during it: when the
\* source's modification time differs from T's stored mark, whether later or
\* earlier, a call that returns has rendered T's source, once, and stored the new
\* mark; when the two are equal the call has rendered and written nothing, the
\* store is as it was and the content returned is that of the output file.
C25_RerenderIffMarkDiffers ==
    CallEndedWithoutRebuild =>
        IF RowAtCall.modified # mtime[RowAtCall.source_path]
        THEN result.kind = "content" =>
                /\ Events("render") = <<Ev("render", RowAtCall.source_path)>>
                /\ Did("update")
                /\ page_get_by_title(db, title).modified = mtime[RowAtCall.source_path]
        ELSE /\ trace = <<>>
             /\ db = ctx.db
             /\ result.kind = "content" => result.html = outputs[page_output_path(RowAtCall)]

C25_Witness ==
    /\ CallEndedWithoutRebuild
    /\ RowAtCall.modified > mtime[RowAtCall.source_path]
    /\ result.kind = "content"
    /\ Did("update")

\* C26: on a connection opened without write=True the store holds at every moment
\* what it held when the connection was opened; a modifying statement executed on
\* it fails, and once the connection is closed the error was raised to the caller.
C26_ReadConnectionCannotWrite ==
    ~tx.write =>
        /\ db = tx.before
        /\ tx.work = tx.before
        /\ tx.stmts # <<>> => tx.state \in {"failed", "rolledback", "closed"}
        /\ (tx.stmts # <<>> /\ tx.state = "closed") => tx.raised

C26_Witness ==
    /\ ~tx.write
    /\ tx.state = "closed"
    /\ tx.raised
    /\ db # {}
    /\ tx.stmts = <<[op |-> "delete", row |-> NoPage]>>

\* C27: whenever no call is running, a row whose mark equals the modification
\* time of its source has an output file that is the render of the source's
\* present text.
C27_MarkedOutputIsCurrent ==
    pc = "idle" =>
        \A r \in db :
            (r.source_path \in Range(listing) /\ r.modified = mtime[r.source_path]) =>
                outputs[page_output_path(r)] = RendererRender(content[r.source_path], r)

\* C28: when a call for T on the first engine has ended that followed a call for T
\* that returned, a second engine constructed in between and the tree unchanged,
\* it has returned what that call returned, and the functions of db still reach
\* the first engine's database file.
C28_SecondEngineLeavesFirstAlone ==
    (store_files.engines > 1 /\ ctx.repeat.kind \in {"content", "notfound"} /\ pc = "idle") =>
        /\ result.kind = ctx.repeat.kind
        /\ result.html = ctx.repeat.html
        /\ store_files.sqlite_filename_global = FirstStore

====
